---- MODULE Spec2Model ----
(***************************************************************************)
(* RapidRoute: the route progression and signal-waypoint tracking engine   *)
(* of the three simulation servers                                         *)
(*   Control Panel      src/Control Panel/control_panel_server.py   (CP)   *)
(*   VSC                src/VSC/control_panel_server.py             (VSC)  *)
(*   Simulation Server  src/Simulation Server/simulation_server.py  (SIM)  *)
(*                                                                         *)
(* The module-level globals of a server are the variables.  Every Flask    *)
(* handler is a sequence of statement-level steps of one request thread    *)
(* (threads[t].pc is the statement the thread executes next), so that the  *)
(* same translation serves the one-request-at-a-time behaviours (Spec) and *)
(* the threaded behaviours of app.run (SpecThreaded).                      *)
(*                                                                         *)
(* Geometry.  TLC has no reals.  A coordinate is <<lat, lon>> where every  *)
(* point of the model lies on one meridian (lon = 0) and lat is the arc    *)
(* length in metres north of a reference parallel.  On one meridian the    *)
(* haversine formula is exactly R * |dlat|, i.e. |lat1 - lat2| in these    *)
(* units.  Distances and thresholds are therefore in metres (0.05 km = 50).*)
(* None is <<>> wherever the code holds None or a tuple/list.              *)
(***************************************************************************)
EXTENDS Integers, Sequences, FiniteSets, TLC

\* ---------------------------------------------------------------- bounds
\* Longest geometry the route provider returns.
MaxPoints == 3
\* Request threads of the threaded server.
MaxThreads == 2
\* Requests admitted in a threaded behaviour.
MaxRequests == 3
\* Routes precalculated at start-up of the Simulation Server.
MaxPool == 2
\* Points of a path handed to find_signals_on_path on its own.
MaxPath == 2
\* Signals of a signal table handed to setup_signal_data on its own.
MaxSignals == 4

\* ------------------------------------------------------ program constants
\* WAYPOINT_PROXIMITY_KM = 0.1 (km), in metres.
WAYPOINT_PROXIMITY_KM == 100
\* The literal 0.05 (km) of find_next_signal_on_route, in metres.
ARRIVAL_RADIUS_KM == 50
\* The literal 0.05 (km) of the Simulation Server's find_signals_on_path.
SIM_WAYPOINT_PROXIMITY_KM == 50

VARIABLES
    server,                 \* which of the three programs runs: "CP", "VSC", "SIM"
    workers,                \* 1: requests one at a time; MaxThreads: threaded
    SIGNALS,                \* dict name -> (lat, lon), as its items in insertion order
    SIGNAL_NAME_TO_ID,      \* dict name -> id
    SIGNAL_ID_TO_NAME,      \* dict id -> name (keys 1..N: a sequence)
    PRECALCULATED_ROUTES,   \* SIM only: list of route dicts
    route_points,
    route_signal_waypoints,
    current_point_index,
    previous_location,
    current_start_name,
    current_destination_name,
    signals_passed_on_current_route,
    threads,                \* request threads: pc and locals
    response,               \* the last HTTP response sent
    admitted,               \* requests admitted so far (threaded behaviours only)
    ticks,                  \* history: /location requests answered since the last
                            \* activation was completed, saturating (one request
                            \* at a time only)
    activated               \* history: the start and end names the installed
                            \* waypoints were computed for (one request at a
                            \* time only)

globals == <<route_points, route_signal_waypoints, current_point_index,
             previous_location, current_start_name, current_destination_name,
             signals_passed_on_current_route>>

registry == <<server, workers, SIGNALS, SIGNAL_NAME_TO_ID, SIGNAL_ID_TO_NAME,
              PRECALCULATED_ROUTES>>

vars == <<server, workers, SIGNALS, SIGNAL_NAME_TO_ID, SIGNAL_ID_TO_NAME,
          PRECALCULATED_ROUTES, route_points, route_signal_waypoints,
          current_point_index, previous_location, current_start_name,
          current_destination_name, signals_passed_on_current_route,
          threads, response, admitted, ticks, activated>>

None == <<>>

\* ------------------------------------------------------------ python lists
\* x in list
list_contains(list, x) == \E i \in 1..Len(list) : list[i] = x

\* list.remove(x): removes the first occurrence (the code calls it only when
\* x is in the list).
list_remove(list, x) ==
    LET first == CHOOSE i \in 1..Len(list) :
                    /\ list[i] = x
                    /\ \A j \in 1..(i - 1) : list[j] # x
    IN  SubSeq(list, 1, first - 1) \o SubSeq(list, first + 1, Len(list))

\* list(dict.fromkeys(list)): drops every repetition, keeps first occurrences.
RECURSIVE dict_fromkeys(_)
dict_fromkeys(list) ==
    IF list = <<>> THEN <<>>
    ELSE LET front == dict_fromkeys(SubSeq(list, 1, Len(list) - 1))
             last == list[Len(list)]
         IN  IF list_contains(front, last) THEN front ELSE Append(front, last)

\* A sort that is ascending by key and puts an element before those of
\* equal key that came earlier.
RECURSIVE list_sort_ties_reversed(_, _)
list_sort_ties_reversed(list, key) ==
    IF list = <<>> THEN <<>>
    ELSE LET front == list_sort_ties_reversed(SubSeq(list, 1, Len(list) - 1), key)
             x == list[Len(list)]
             n == Cardinality({i \in 1..Len(front) : key[front[i]] < key[x]})
         IN  SubSeq(front, 1, n) \o <<x>> \o SubSeq(front, n + 1, Len(front))

\* list.sort(key=...): stable, ascending by key; key is a function on the
\* elements.  Insertion after the last element whose key is <= the new one.
RECURSIVE list_sort(_, _)
list_sort(list, key) ==
    IF list = <<>> THEN <<>>
    ELSE LET front == list_sort(SubSeq(list, 1, Len(list) - 1), key)
             x == list[Len(list)]
             n == Cardinality({i \in 1..Len(front) : key[front[i]] <= key[x]})
         IN  SubSeq(front, 1, n) \o <<x>> \o SubSeq(front, n + 1, Len(front))

\* ------------------------------------------------------------ the registry
\* Code points of the characters of the signal names of the model.
ord == [c \in {"A", "B", "C"} |-> CASE c = "A" -> 65 [] c = "B" -> 66 [] c = "C" -> 67]

\* The characters of a signal name.
chars == [name \in {"A", "AB", "B", "C"} |->
            CASE name = "A" -> <<"A">>
              [] name = "AB" -> <<"A", "B">>
              [] name = "B" -> <<"B">>
              [] name = "C" -> <<"C">>]

\* Python's str < str: lexicographic by code point, a proper prefix is less.
RECURSIVE seq_less(_, _)
seq_less(a, b) ==
    IF b = <<>> THEN FALSE
    ELSE IF a = <<>> THEN TRUE
    ELSE IF ord[Head(a)] # ord[Head(b)] THEN ord[Head(a)] < ord[Head(b)]
    ELSE seq_less(Tail(a), Tail(b))

str_less(a, b) == seq_less(chars[a], chars[b])

\* An enumeration of the names in the insertion order of the dict.
insertion_order(names) == names

\* sorted(names): ascending by str <.
RECURSIVE sorted(_)
sorted(names) ==
    IF names = <<>> THEN <<>>
    ELSE LET front == sorted(SubSeq(names, 1, Len(names) - 1))
             x == names[Len(names)]
             n == Cardinality({i \in 1..Len(front) : ~str_less(x, front[i])})
         IN  SubSeq(front, 1, n) \o <<x>> \o SubSeq(front, n + 1, Len(front))

\* The signal table of the model: three signals on one meridian, 50 m apart
\* (A and C are equally far from B), entered in an order that is not the
\* alphabetical one.
KNOWN_SIGNALS ==
    << <<"C", <<100, 0>>>>, <<"A", <<0, 0>>>>, <<"B", <<50, 0>>>> >>

\* dict.keys(), in insertion order
dict_keys(dict) == [i \in 1..Len(dict) |-> dict[i][1]]

\* dict[name]
dict_get(dict, name) ==
    LET i == CHOOSE i \in 1..Len(dict) : dict[i][1] = name
    IN  dict[i][2]

\* setup_signal_data / load_signals_from_file: the two id maps of a table.
setup_SIGNAL_ID_TO_NAME(signals) == sorted(dict_keys(signals))

setup_SIGNAL_NAME_TO_ID(signals) ==
    LET id_to_name == setup_SIGNAL_ID_TO_NAME(signals)
    IN  [name \in {id_to_name[i] : i \in 1..Len(id_to_name)} |->
            CHOOSE i \in 1..Len(id_to_name) : id_to_name[i] = name]

\* SIGNAL_NAME_TO_ID.get(name, 0)
name_to_id_get(name) ==
    IF name \in DOMAIN SIGNAL_NAME_TO_ID THEN SIGNAL_NAME_TO_ID[name] ELSE 0

\* ---------------------------------------------------------------- GeoMath
Abs(x) == IF x < 0 THEN -x ELSE x

\* haversine on one meridian (lon1 = lon2): R * c with c = |dlat|.
haversine(lat1, lon1, lat2, lon2) == Abs(lat2 - lat1)

\* SIGNALS[name]
SIGNALS_at(name) == dict_get(SIGNALS, name)

\* SIGNALS.get(name, default)
SIGNALS_get(name, default) ==
    IF list_contains(dict_keys(SIGNALS), name) THEN dict_get(SIGNALS, name)
    ELSE default

\* --------------------------------------------------- WaypointSequencer
\* A comprehension that takes a signal at the proximity itself as near.
signals_near_path_or_at(points, proximity) ==
    SelectSeq(dict_keys(SIGNALS),
              LAMBDA name :
                  \E i \in 1..Len(points) :
                      haversine(points[i][1], points[i][2],
                                SIGNALS_at(name)[1], SIGNALS_at(name)[2]) <= proximity)

\* The comprehension of find_signals_on_path: the names of SIGNALS.items(),
\* in dict order, with some point of the path nearer than the proximity.
signals_near_path(points, proximity) ==
    SelectSeq(dict_keys(SIGNALS),
              LAMBDA name :
                  \E i \in 1..Len(points) :
                      haversine(points[i][1], points[i][2],
                                SIGNALS_at(name)[1], SIGNALS_at(name)[2]) < proximity)

\* key=lambda name: haversine(start_lat, start_lon, SIGNALS[name][0], SIGNALS[name][1])
distance_from(start_name) ==
    [name \in {SIGNALS[i][1] : i \in 1..Len(SIGNALS)} |->
        haversine(SIGNALS_at(start_name)[1], SIGNALS_at(start_name)[2],
                  SIGNALS_at(name)[1], SIGNALS_at(name)[2])]

\* A clean-up that takes start out of the sorted list and leaves end in.
middle_waypoints_end_kept(near, start_name, end_name) ==
    LET waypoints == list_sort(near, distance_from(start_name))
    IN  IF list_contains(waypoints, start_name)
        THEN list_remove(waypoints, start_name) ELSE waypoints

\* The sorted middle of the three find_signals_on_path: sort by the distance
\* from start, then take start and end out.
middle_waypoints(near, start_name, end_name) ==
    LET waypoints == list_sort(near, distance_from(start_name))
        no_start == IF list_contains(waypoints, start_name)
                    THEN list_remove(waypoints, start_name) ELSE waypoints
    IN  IF list_contains(no_start, end_name)
        THEN list_remove(no_start, end_name) ELSE no_start

\* Control Panel: proximity WAYPOINT_PROXIMITY_KM, duplicates dropped.
CP_find_signals_on_path(points, start_name, end_name) ==
    LET waypoints == middle_waypoints(signals_near_path(points, WAYPOINT_PROXIMITY_KM),
                                      start_name, end_name)
        final_waypoints == <<start_name>> \o waypoints \o <<end_name>>
    IN  dict_fromkeys(final_waypoints)

\* VSC: proximity WAYPOINT_PROXIMITY_KM, no dict.fromkeys.
VSC_find_signals_on_path(points, start_name, end_name) ==
    LET path_signals == middle_waypoints(signals_near_path(points, WAYPOINT_PROXIMITY_KM),
                                         start_name, end_name)
    IN  <<start_name>> \o path_signals \o <<end_name>>

\* Simulation Server: proximity 0.05, duplicates dropped.
SIM_find_signals_on_path(points, start_name, end_name) ==
    LET waypoints == middle_waypoints(signals_near_path(points, SIM_WAYPOINT_PROXIMITY_KM),
                                      start_name, end_name)
        final_waypoints == <<start_name>> \o waypoints \o <<end_name>>
    IN  dict_fromkeys(final_waypoints)

\* ------------------------------------------------- the route provider
\* Latitudes of the road points the provider's geometries are made of: 20 is
\* within the arrival radius of A and B and within 100 m of C; 100 is at C,
\* 50 m from B (the arrival radius itself) and 100 m from A (the proximity
\* itself).
RoadLats == {20, 100}

RECURSIVE SeqsUpTo(_, _)
SeqsUpTo(S, n) ==
    IF n = 0 THEN {<<>>}
    ELSE LET shorter == SeqsUpTo(S, n - 1)
         IN  shorter \cup {Append(s, x) : s \in {q \in shorter : Len(q) = n - 1}, x \in S}

\* The signal table of the end-to-end scenario: A, B about 0.111 km from A
\* (0.001 degrees), C ten degrees away.  The scenario lies on the equator,
\* where haversine is R * |dlon|; it is laid here along the model's
\* meridian, which keeps every distance.
SCENARIO_SIGNALS ==
    << <<"A", <<0, 0>>>>, <<"B", <<111, 0>>>>, <<"C", <<1111949, 0>>>> >>

\* The road of the scenario, as [lon, lat]: at A, 0.0009 degrees on, 9.999
\* degrees on, at C.
SCENARIO_GEOMETRY ==
    << <<0, 0>>, <<0, 100>>, <<0, 1111838>>, <<0, 1111949>> >>

\* The first stretch of the scenario's road, which ends 11 m from B and
\* comes nowhere near C.
SCENARIO_GEOMETRY_TO_B == SubSeq(SCENARIO_GEOMETRY, 1, 2)

\* What get_osrm_route returns on success: a non-empty list of [lon, lat],
\* here a polyline of at most MaxPoints road points with no segment of
\* length zero; around the signals of the scenario, the scenario's road or
\* its first stretch.
OsrmGeometries ==
    IF SIGNALS = SCENARIO_SIGNALS THEN {SCENARIO_GEOMETRY, SCENARIO_GEOMETRY_TO_B}
    ELSE {g \in SeqsUpTo({<<0, lat>> : lat \in RoadLats}, MaxPoints) \ {<<>>} :
             \A i \in 1..(Len(g) - 1) : g[i] # g[i + 1]}

\* [(lat, lon) for lon, lat in coords]
swap_lon_lat(coords) == [i \in 1..Len(coords) |-> <<coords[i][2], coords[i][1]>>]

\* ------------------------------------------------------ request threads
Threads == 1..MaxThreads

\* A thread that serves no request; the locals of the handlers, cleared.
IdleThread ==
    [pc |-> "idle",
     end_id |-> 0,                \* start_manual_route: end_id
     selected_route |-> 0,        \* select_new_route: selected_route (index in the pool)
     current_loc |-> None,        \* get_location: current_loc
     prev_loc |-> None,           \* get_location: prev_loc
     next_signal_name |-> "",     \* get_location: next_signal_name
     entry_globals |-> None,      \* history: the globals when start_manual_route was called
     entry_passed |-> <<>>,       \* history: the passed list when find_next_signal_on_route was called
     iterations |-> 0,            \* history: iterations of its while loop so far
     read_index |-> -1]           \* history: the index of the installed route_points
                                  \* at which current_location was read (-1: none)

NoResponse ==
    [endpoint |-> "", status |-> 0, error |-> "", route |-> <<>>,
     current_loc |-> None, prev_loc |-> None,
     start_id |-> 0, dest_id |-> 0, next_signal_id |-> 0, next_signal_name |-> ""]

\* The server takes a request on thread t: the lowest idle thread, while
\* fewer than `workers` requests are in flight.
CanAdmit(t) ==
    /\ threads[t].pc = "idle"
    /\ \A u \in 1..(t - 1) : threads[u].pc # "idle"
    /\ Cardinality({u \in Threads : threads[u].pc # "idle"}) < workers
    /\ (workers = 1 \/ admitted < MaxRequests)

Admit == admitted' = IF workers = 1 THEN admitted ELSE admitted + 1

\* No response has been sent yet to the request just admitted.
Pending == response' = NoResponse

\* Thread t goes on to statement pc with the locals changed as in `locals`.
Goto(t, pc, locals) ==
    threads' = [threads EXCEPT ![t] = [f \in DOMAIN IdleThread |->
                    IF f = "pc" THEN pc
                    ELSE IF f \in DOMAIN locals THEN locals[f]
                    ELSE threads[t][f]]]

NoLocals == [x \in {} |-> 0]

\* Goto for the statement that assigns route_points: the history of what
\* the threads read of the route_points it replaces is dropped.
GotoInstalling(t, pc, locals) ==
    threads' = [u \in Threads |->
                   IF u = t
                   THEN [f \in DOMAIN IdleThread |->
                            IF f = "pc" THEN pc
                            ELSE IF f = "read_index" THEN -1
                            ELSE IF f \in DOMAIN locals THEN locals[f]
                            ELSE threads[t][f]]
                   ELSE [threads[u] EXCEPT !.read_index = -1]]

\* Thread t ends its request with response r.
Return(t, r) ==
    /\ threads' = [threads EXCEPT ![t] = IdleThread]
    /\ response' = [f \in DOMAIN NoResponse |->
                       IF f \in DOMAIN r THEN r[f] ELSE NoResponse[f]]

\* The history a request thread keeps of the globals at its call; kept only
\* while requests are served one at a time, like `ticks`.
EntryGlobals == IF workers = 1 THEN globals ELSE None

\* Where the history `ticks` saturates.
TicksCap == MaxPoints + 1

\* The history after a step of thread t: one more /location request is
\* answered if the step sends the response to one.
Ticks(t) ==
    ticks' = IF /\ threads'[t].pc = "idle"
                /\ response'.endpoint = "/location"
                /\ workers = 1
                /\ ticks < TicksCap
             THEN ticks + 1 ELSE ticks

\* The history after a step that completes an activation.
TicksReset == ticks' = 0

\* The history after the step that installs the waypoints of a route.
Activated(start_name, end_name) ==
    activated' = IF workers = 1 THEN <<start_name, end_name>> ELSE activated

\* An uncaught exception: Flask answers 500.
Raise(t, endpoint, exception) ==
    Return(t, [endpoint |-> endpoint, status |-> 500, error |-> exception])

\* ------------------------------------------------------------------ Init
\* One entry of PRECALCULATED_ROUTES, as the start-up loop builds it.
SIM_precalculated_route(start_name, dest_name, route_coords) ==
    LET points == swap_lon_lat(route_coords)
    IN  [start |-> start_name, end |-> dest_name, points |-> points,
         waypoints |-> SIM_find_signals_on_path(points, start_name, dest_name)]

\* The draws of the start-up loop in this model: the two names of
\* random.sample and the geometry the route provider answered with.
PoolDraws ==
    << <<"A", "C", << <<0, 20>>, <<0, 100>> >> >>,
       <<"C", "A", << <<0, 100>>, <<0, 100>>, <<0, 20>> >> >>,
       <<"B", "A", << <<0, 20>> >> >>,
       <<"A", "B", << <<0, 100>> >> >> >>

\* The pools the start-up loop can leave: a failed route is skipped, and the
\* server starts only with a non-empty pool.  The order of the pool and a
\* route entered twice change nothing random.choice can return, so one pool
\* (its routes in the order of PoolDraws) stands for each set of routes.
SIM_main_pools ==
    LET picks == {I \in SeqsUpTo(1..Len(PoolDraws), MaxPool) \ {<<>>} :
                    \A k \in 1..(Len(I) - 1) : I[k] < I[k + 1]}
    IN  {[k \in 1..Len(I) |->
            SIM_precalculated_route(PoolDraws[I[k]][1], PoolDraws[I[k]][2],
                                    PoolDraws[I[k]][3])] : I \in picks}

InitServer(concurrency) ==
    /\ server \in {"CP", "VSC", "SIM"}
    /\ workers = concurrency
    /\ SIGNALS = KNOWN_SIGNALS
    /\ SIGNAL_ID_TO_NAME = setup_SIGNAL_ID_TO_NAME(KNOWN_SIGNALS)
    /\ SIGNAL_NAME_TO_ID = setup_SIGNAL_NAME_TO_ID(KNOWN_SIGNALS)
    /\ PRECALCULATED_ROUTES \in (IF server = "SIM" THEN SIM_main_pools ELSE {<<>>})
    /\ route_points = <<>>
    /\ route_signal_waypoints = <<>>
    /\ current_point_index = 0
    /\ previous_location = None
    /\ current_start_name = ""
    /\ current_destination_name = ""
    /\ signals_passed_on_current_route = <<>>
    /\ threads = [t \in Threads |-> IdleThread]
    /\ response = NoResponse
    /\ admitted = 0
    /\ ticks = 0
    /\ activated = <<"", "">>

Init == InitServer(1)

\* A server started with the signal table of the end-to-end scenario, one
\* request at a time; the pool of the Simulation Server holds the
\* scenario's route from A to C.
InitScenario ==
    /\ server \in {"CP", "VSC", "SIM"}
    /\ workers = 1
    /\ SIGNALS = SCENARIO_SIGNALS
    /\ SIGNAL_ID_TO_NAME = setup_SIGNAL_ID_TO_NAME(SCENARIO_SIGNALS)
    /\ SIGNAL_NAME_TO_ID = setup_SIGNAL_NAME_TO_ID(SCENARIO_SIGNALS)
    /\ PRECALCULATED_ROUTES =
          (IF server = "SIM"
           THEN <<SIM_precalculated_route("A", "C", SCENARIO_GEOMETRY)>>
           ELSE <<>>)
    /\ route_points = <<>>
    /\ route_signal_waypoints = <<>>
    /\ current_point_index = 0
    /\ previous_location = None
    /\ current_start_name = ""
    /\ current_destination_name = ""
    /\ signals_passed_on_current_route = <<>>
    /\ threads = [t \in Threads |-> IdleThread]
    /\ response = NoResponse
    /\ admitted = 0
    /\ ticks = 0
    /\ activated = <<"", "">>

InitThreaded == InitServer(MaxThreads)

\* --------------------------------------- POST /start-manual-route (CP, VSC)
\* The handlers of the Control Panel (start_manual_route) and of VSC
\* (start_route) are the same statements but for find_signals_on_path and
\* the reset of previous_location; the shared statements are written once.

\* The ids a client may send: every registered id, and one that is not.
IdInputs == 1..(Len(SIGNAL_ID_TO_NAME) + 1)

\* request.get_json(), int(...), current_start_name = SIGNAL_ID_TO_NAME[start_id]
start_manual_route(t, start_id, end_id) ==
    /\ server \in {"CP", "VSC"}
    /\ CanAdmit(t)
    /\ Admit
    /\ IF start_id \in DOMAIN SIGNAL_ID_TO_NAME
       THEN /\ current_start_name' = SIGNAL_ID_TO_NAME[start_id]
            /\ Goto(t, "dest_name", [end_id |-> end_id, entry_globals |-> EntryGlobals])
            /\ Pending
       ELSE /\ Raise(t, "/start-manual-route", "KeyError")
            /\ UNCHANGED current_start_name
    /\ UNCHANGED <<registry, route_points, route_signal_waypoints, current_point_index,
                   previous_location, current_destination_name,
                   signals_passed_on_current_route>>
    /\ Ticks(t)
    /\ UNCHANGED activated

\* current_destination_name = SIGNAL_ID_TO_NAME[end_id]
start_manual_route_dest_name(t) ==
    /\ threads[t].pc = "dest_name"
    /\ IF threads[t].end_id \in DOMAIN SIGNAL_ID_TO_NAME
       THEN /\ current_destination_name' = SIGNAL_ID_TO_NAME[threads[t].end_id]
            /\ Goto(t, "osrm", NoLocals)
            /\ UNCHANGED response
       ELSE /\ Raise(t, "/start-manual-route", "KeyError")
            /\ UNCHANGED current_destination_name
    /\ UNCHANGED <<registry, route_points, route_signal_waypoints, current_point_index,
                   previous_location, current_start_name,
                   signals_passed_on_current_route, admitted>>
    /\ Ticks(t)
    /\ UNCHANGED activated

\* full_route_coords = get_osrm_route(...)
\* if full_route_coords: route_points = [(lat, lon) for lon, lat in full_route_coords]
\* else: return 500.
\* The provider answers with a geometry, or get_osrm_route returns None.  The
\* call and the test touch only locals, so they are one step with the
\* assignment of route_points that follows them.
start_manual_route_osrm(t) ==
    /\ threads[t].pc = "osrm"
    /\ \E full_route_coords \in OsrmGeometries \cup {None} :
          IF full_route_coords # None
          THEN /\ route_points' = swap_lon_lat(full_route_coords)
               /\ GotoInstalling(t, "set_waypoints", [entry_globals |-> None])
               /\ UNCHANGED response
          ELSE /\ Return(t, [endpoint |-> "/start-manual-route", status |-> 500,
                             error |-> "Could not calculate route"])
               /\ UNCHANGED route_points
    /\ UNCHANGED <<registry, route_signal_waypoints, current_point_index,
                   previous_location, current_start_name, current_destination_name,
                   signals_passed_on_current_route, admitted>>
    /\ Ticks(t)
    /\ UNCHANGED activated

\* Control Panel:
\* route_signal_waypoints = find_signals_on_path(route_points, current_start_name, current_destination_name)
CP_start_manual_route_set_waypoints(t) ==
    /\ server = "CP"
    /\ threads[t].pc = "set_waypoints"
    /\ route_signal_waypoints' =
          CP_find_signals_on_path(route_points, current_start_name, current_destination_name)
    /\ Goto(t, "reset_index", NoLocals)
    /\ UNCHANGED <<registry, route_points, current_point_index,
                   previous_location, current_start_name, current_destination_name,
                   signals_passed_on_current_route, response,
                   admitted>>
    /\ Ticks(t)
    /\ Activated(current_start_name, current_destination_name)

\* VSC: the same statement, with VSC's find_signals_on_path.
VSC_start_route_set_waypoints(t) ==
    /\ server = "VSC"
    /\ threads[t].pc = "set_waypoints"
    /\ route_signal_waypoints' =
          VSC_find_signals_on_path(route_points, current_start_name, current_destination_name)
    /\ Goto(t, "reset_index", NoLocals)
    /\ UNCHANGED <<registry, route_points, current_point_index,
                   previous_location, current_start_name, current_destination_name,
                   signals_passed_on_current_route, response,
                   admitted>>
    /\ Ticks(t)
    /\ Activated(current_start_name, current_destination_name)

\* Control Panel: current_point_index, previous_location = 0, None
CP_start_manual_route_reset_index(t) ==
    /\ server = "CP"
    /\ threads[t].pc = "reset_index"
    /\ current_point_index' = 0
    /\ previous_location' = None
    /\ Goto(t, "reset_passed", NoLocals)
    /\ UNCHANGED <<registry, route_points, route_signal_waypoints,
                   current_start_name, current_destination_name,
                   signals_passed_on_current_route, response,
                   admitted>>
    /\ Ticks(t)
    /\ UNCHANGED activated

\* VSC: current_point_index = 0
VSC_start_route_reset_index(t) ==
    /\ server = "VSC"
    /\ threads[t].pc = "reset_index"
    /\ current_point_index' = 0
    /\ Goto(t, "reset_passed", NoLocals)
    /\ UNCHANGED <<registry, route_points, route_signal_waypoints, previous_location,
                   current_start_name, current_destination_name,
                   signals_passed_on_current_route, response,
                   admitted>>
    /\ Ticks(t)
    /\ UNCHANGED activated

\* signals_passed_on_current_route = []
start_manual_route_reset_passed(t) ==
    /\ threads[t].pc = "reset_passed"
    /\ signals_passed_on_current_route' = <<>>
    /\ Goto(t, "publish", NoLocals)
    /\ UNCHANGED <<registry, route_points, route_signal_waypoints, current_point_index,
                   previous_location, current_start_name, current_destination_name,
                   response, admitted>>
    /\ Ticks(t)
    /\ UNCHANGED activated

\* mqtt_client.publish(MQTT_ROUTE_TOPIC, json.dumps(route_points), qos=1): the
\* broker is outside the model, the publish changes no state of the server.
\* return jsonify({"message": ..., "route": route_signal_waypoints})
start_manual_route_publish(t) ==
    /\ threads[t].pc = "publish"
    /\ Return(t, [endpoint |-> "/start-manual-route", status |-> 200,
                  route |-> route_signal_waypoints])
    /\ UNCHANGED <<registry, globals, admitted>>
    /\ TicksReset
    /\ UNCHANGED activated

\* ------------------------------------------------------- GET /location
\* Where get_location goes on once get_next_simulated_location has returned
\* a location: the call of find_next_signal_on_route.
CallFindNextSignal(t, current_loc, prev_loc) ==
    Goto(t, "scan", [current_loc |-> current_loc, prev_loc |-> prev_loc,
                     entry_passed |-> signals_passed_on_current_route,
                     iterations |-> 0])

\* A test that takes only a route run to its end as exhausted.
route_exhausted_at_end ==
    route_points # <<>> /\ current_point_index >= Len(route_points)

\* `if not route_points or current_point_index >= len(route_points)`
route_exhausted == route_points = <<>> \/ current_point_index >= Len(route_points)

\* Control Panel: get_location calls get_next_simulated_location, which
\* tests whether the route is exhausted; with no route at all it returns
\* (None, None) and get_location answers "error: no route selected".
CP_get_location(t) ==
    /\ server = "CP"
    /\ CanAdmit(t)
    /\ Admit
    /\ IF route_exhausted
       THEN IF route_points # <<>>
            THEN /\ Goto(t, "hold", NoLocals)
                 /\ Pending
            ELSE /\ Return(t, [endpoint |-> "/location", status |-> 500,
                               error |-> "no route selected"])
       ELSE /\ Goto(t, "prev", NoLocals)
            /\ Pending
    /\ UNCHANGED <<registry, globals>>
    /\ Ticks(t)
    /\ UNCHANGED activated

\* Control Panel, end of the manual route:
\* return route_points[-1], route_points[-2] if len(route_points) > 1 else route_points[-1]
CP_get_next_simulated_location_hold(t) ==
    /\ threads[t].pc = "hold"
    /\ LET n == Len(route_points)
       IN  CallFindNextSignal(t, route_points[n],
                              IF n > 1 THEN route_points[n - 1] ELSE route_points[n])
    /\ UNCHANGED <<registry, globals, response, admitted>>
    /\ Ticks(t)
    /\ UNCHANGED activated

\* VSC: the same test; an exhausted route returns (None, None) and
\* get_location answers "error: no route selected".
VSC_get_location(t) ==
    /\ server = "VSC"
    /\ CanAdmit(t)
    /\ Admit
    /\ IF route_exhausted
       THEN /\ Return(t, [endpoint |-> "/location", status |-> 500,
                          error |-> "no route selected"])
       ELSE /\ Goto(t, "prev", NoLocals)
            /\ Pending
    /\ UNCHANGED <<registry, globals>>
    /\ Ticks(t)
    /\ UNCHANGED activated

\* Simulation Server: the same test; an exhausted route calls select_new_route.
SIM_get_location(t) ==
    /\ server = "SIM"
    /\ CanAdmit(t)
    /\ Admit
    /\ Goto(t, IF route_exhausted THEN "select" ELSE "prev", NoLocals)
    /\ Pending
    /\ UNCHANGED <<registry, globals>>
    /\ Ticks(t)
    /\ UNCHANGED activated

\* select_new_route: `if not PRECALCULATED_ROUTES: return False` (and then
\* get_location answers "error"), selected_route = random.choice(...),
\* route_points, route_signal_waypoints = selected_route["points"], selected_route["waypoints"]
SIM_select_new_route(t) ==
    /\ threads[t].pc = "select"
    /\ IF PRECALCULATED_ROUTES = <<>>
       THEN /\ Return(t, [endpoint |-> "/location", status |-> 500, error |-> "error"])
            /\ UNCHANGED <<route_points, route_signal_waypoints, activated>>
       ELSE /\ \E selected_route \in 1..Len(PRECALCULATED_ROUTES) :
                  /\ route_points' = PRECALCULATED_ROUTES[selected_route].points
                  /\ route_signal_waypoints' = PRECALCULATED_ROUTES[selected_route].waypoints
                  /\ GotoInstalling(t, "select_names", [selected_route |-> selected_route])
                  /\ Activated(PRECALCULATED_ROUTES[selected_route].start,
                               PRECALCULATED_ROUTES[selected_route].end)
            /\ UNCHANGED response
    /\ UNCHANGED <<registry, current_point_index, previous_location, current_start_name,
                   current_destination_name, signals_passed_on_current_route,
                   admitted>>
    /\ Ticks(t)

\* current_start_name, current_destination_name = selected_route["start"], selected_route["end"]
SIM_select_new_route_names(t) ==
    /\ threads[t].pc = "select_names"
    /\ current_start_name' = PRECALCULATED_ROUTES[threads[t].selected_route].start
    /\ current_destination_name' = PRECALCULATED_ROUTES[threads[t].selected_route].end
    /\ Goto(t, "select_publish", NoLocals)
    /\ UNCHANGED <<registry, route_points, route_signal_waypoints, current_point_index,
                   previous_location, signals_passed_on_current_route,
                   response, admitted>>
    /\ Ticks(t)
    /\ UNCHANGED activated

\* mqtt_client.publish(MQTT_ROUTE_TOPIC, json.dumps(route_points), qos=1)
SIM_select_new_route_publish(t) ==
    /\ threads[t].pc = "select_publish"
    /\ Goto(t, "select_reset", NoLocals)
    /\ UNCHANGED <<registry, globals, response, admitted>>
    /\ Ticks(t)
    /\ UNCHANGED activated

\* A select_new_route that resets previous_location and keeps the cursor.
SIM_select_new_route_reset_index_keeps_cursor(t) ==
    /\ threads[t].pc = "select_reset"
    /\ previous_location' = None
    /\ Goto(t, "select_passed", NoLocals)
    /\ UNCHANGED <<registry, route_points, route_signal_waypoints, current_point_index,
                   current_start_name, current_destination_name,
                   signals_passed_on_current_route, response,
                   admitted>>
    /\ Ticks(t)
    /\ UNCHANGED activated

\* current_point_index, previous_location = 0, None
SIM_select_new_route_reset_index(t) ==
    /\ threads[t].pc = "select_reset"
    /\ current_point_index' = 0
    /\ previous_location' = None
    /\ Goto(t, "select_passed", NoLocals)
    /\ UNCHANGED <<registry, route_points, route_signal_waypoints,
                   current_start_name, current_destination_name,
                   signals_passed_on_current_route, response,
                   admitted>>
    /\ Ticks(t)
    /\ UNCHANGED activated

\* signals_passed_on_current_route = []; return True
SIM_select_new_route_reset_passed(t) ==
    /\ threads[t].pc = "select_passed"
    /\ signals_passed_on_current_route' = <<>>
    /\ Goto(t, "prev", NoLocals)
    /\ UNCHANGED <<registry, route_points, route_signal_waypoints, current_point_index,
                   previous_location, current_start_name, current_destination_name,
                   response, admitted>>
    /\ TicksReset
    /\ UNCHANGED activated

\* The rest of get_next_simulated_location is the same in the three servers.
\* A Python index i of route_points is in range iff 0 <= i < len; the list
\* is 1-based here.
in_range(i) == 0 <= i /\ i < Len(route_points)

\* previous_location = route_points[current_point_index - 1] if current_point_index > 0 else route_points[0]
get_next_simulated_location_prev(t) ==
    /\ threads[t].pc = "prev"
    /\ LET i == IF current_point_index > 0 THEN current_point_index - 1 ELSE 0
       IN  IF in_range(i)
           THEN /\ previous_location' = route_points[i + 1]
                /\ Goto(t, "cur", NoLocals)
                /\ UNCHANGED response
           ELSE /\ Raise(t, "/location", "IndexError")
                /\ UNCHANGED previous_location
    /\ UNCHANGED <<registry, route_points, route_signal_waypoints, current_point_index,
                   current_start_name, current_destination_name,
                   signals_passed_on_current_route, admitted>>
    /\ Ticks(t)
    /\ UNCHANGED activated

\* current_location = route_points[current_point_index]
get_next_simulated_location_cur(t) ==
    /\ threads[t].pc = "cur"
    /\ IF in_range(current_point_index)
       THEN /\ Goto(t, "inc", [current_loc |-> route_points[current_point_index + 1],
                                 read_index |-> current_point_index])
            /\ UNCHANGED response
       ELSE /\ Raise(t, "/location", "IndexError")
    /\ UNCHANGED <<registry, globals, admitted>>
    /\ Ticks(t)
    /\ UNCHANGED activated

\* A get_next_simulated_location that returns without advancing the cursor.
get_next_simulated_location_inc_stuck(t) ==
    /\ threads[t].pc = "inc"
    /\ CallFindNextSignal(t, threads[t].current_loc, previous_location)
    /\ UNCHANGED <<registry, globals, response, admitted>>
    /\ Ticks(t)
    /\ UNCHANGED activated

\* current_point_index += 1; return current_location, previous_location
get_next_simulated_location_inc(t) ==
    /\ threads[t].pc = "inc"
    /\ current_point_index' = current_point_index + 1
    /\ CallFindNextSignal(t, threads[t].current_loc, previous_location)
    /\ UNCHANGED <<registry, route_points, route_signal_waypoints, previous_location,
                   current_start_name, current_destination_name,
                   signals_passed_on_current_route, response,
                   admitted>>
    /\ Ticks(t)
    /\ UNCHANGED activated

\* ------------------------------------------------ SignalProgressTracker
\* next((s for s in route_signal_waypoints if s not in signals_passed_on_current_route), None);
\* None is "".
next_unpassed(waypoints, passed) ==
    LET unpassed == SelectSeq(waypoints, LAMBDA s : ~list_contains(passed, s))
    IN  IF unpassed = <<>> THEN "" ELSE Head(unpassed)

\* An arrival test that is index-triggered: the next waypoint is reached
\* whatever the position.
arrived_anywhere(current_loc, next_signal_name) ==
    TRUE

\* An arrival test that takes the radius itself as reached (<= 0.05).
arrived_at_radius(current_loc, next_signal_name) ==
    LET next_signal == SIGNALS_get(next_signal_name, <<0, 0>>)
    IN  haversine(current_loc[1], current_loc[2], next_signal[1], next_signal[2])
            <= ARRIVAL_RADIUS_KM

\* haversine(current_lat, current_lon, next_signal_lat, next_signal_lon) < 0.05,
\* with next_signal_lat, next_signal_lon = SIGNALS.get(next_signal_name, (0,0))
arrived(current_loc, next_signal_name) ==
    LET next_signal == SIGNALS_get(next_signal_name, <<0, 0>>)
    IN  haversine(current_loc[1], current_loc[2], next_signal[1], next_signal[2])
            < ARRIVAL_RADIUS_KM

\* A marking that appends nothing.
mark_passed_skipped(passed, next_signal_name) ==
    passed

\* A marking that puts the signal at the front of the passed list.
mark_passed_at_front(passed, next_signal_name) ==
    IF ~list_contains(passed, next_signal_name)
    THEN <<next_signal_name>> \o passed ELSE passed

\* signals_passed_on_current_route.append(next_signal_name), guarded by
\* `if next_signal_name not in signals_passed_on_current_route`
mark_passed(passed, next_signal_name) ==
    IF ~list_contains(passed, next_signal_name)
    THEN Append(passed, next_signal_name) ELSE passed

\* One iteration of the `while True` of find_next_signal_on_route (the same
\* text in the three servers; VSC reads SIGNALS[next_sig], which differs
\* from SIGNALS.get only for a name that is not registered).
find_next_signal_on_route(t) ==
    /\ threads[t].pc = "scan"
    /\ LET next_signal_name == next_unpassed(route_signal_waypoints,
                                             signals_passed_on_current_route)
           count == [iterations |-> threads[t].iterations + 1]
       IN  IF next_signal_name = ""
           THEN /\ Goto(t, "payload",
                        count @@ [next_signal_name |-> current_destination_name])
                /\ UNCHANGED signals_passed_on_current_route
           ELSE IF arrived(threads[t].current_loc, next_signal_name)
           THEN /\ signals_passed_on_current_route' =
                      mark_passed(signals_passed_on_current_route, next_signal_name)
                /\ Goto(t, "scan", count)
           ELSE /\ Goto(t, "payload", count @@ [next_signal_name |-> next_signal_name])
                /\ UNCHANGED signals_passed_on_current_route
    /\ UNCHANGED <<registry, route_points, route_signal_waypoints, current_point_index,
                   previous_location, current_start_name, current_destination_name,
                   response, admitted>>
    /\ Ticks(t)
    /\ UNCHANGED activated

\* The end of get_location: the three ids and the payload.  The response
\* keeps the fields of the payload as values (their "%.6f" text is not
\* modelled).
get_location_payload(t) ==
    /\ threads[t].pc = "payload"
    /\ Return(t, [endpoint |-> "/location", status |-> 200,
                  current_loc |-> threads[t].current_loc,
                  prev_loc |-> threads[t].prev_loc,
                  start_id |-> name_to_id_get(current_start_name),
                  dest_id |-> name_to_id_get(current_destination_name),
                  next_signal_id |-> name_to_id_get(threads[t].next_signal_name),
                  next_signal_name |-> threads[t].next_signal_name])
    /\ UNCHANGED <<registry, globals, admitted>>
    /\ Ticks(t)
    /\ UNCHANGED activated

\* ------------------------------------------------------------------ Next
Next ==
    \E t \in Threads :
        \/ \E start_id \in IdInputs, end_id \in IdInputs :
              start_manual_route(t, start_id, end_id)
        \/ start_manual_route_dest_name(t)
        \/ start_manual_route_osrm(t)
        \/ CP_start_manual_route_set_waypoints(t)
        \/ VSC_start_route_set_waypoints(t)
        \/ CP_start_manual_route_reset_index(t)
        \/ VSC_start_route_reset_index(t)
        \/ start_manual_route_reset_passed(t)
        \/ start_manual_route_publish(t)
        \/ CP_get_location(t)
        \/ CP_get_next_simulated_location_hold(t)
        \/ VSC_get_location(t)
        \/ SIM_get_location(t)
        \/ SIM_select_new_route(t)
        \/ SIM_select_new_route_names(t)
        \/ SIM_select_new_route_publish(t)
        \/ SIM_select_new_route_reset_index(t)
        \/ SIM_select_new_route_reset_passed(t)
        \/ get_next_simulated_location_prev(t)
        \/ get_next_simulated_location_cur(t)
        \/ get_next_simulated_location_inc(t)
        \/ find_next_signal_on_route(t)
        \/ get_location_payload(t)

\* Requests handled one at a time.
Spec == Init /\ [][Next]_vars

\* Requests handled by concurrent threads (Flask's app.run is threaded).
SpecThreaded == InitThreaded /\ [][Next]_vars

\* The end-to-end scenario, requests handled one at a time.
SpecScenario == InitScenario /\ [][Next]_vars

\* ------------------------------- find_signals_on_path and the registry alone
\* The functions setup_signal_data and find_signals_on_path on their own, for
\* every signal table, path, start and end of the bounds below.  In these
\* behaviours route_points, current_start_name and current_destination_name
\* hold the arguments of the last call of find_signals_on_path,
\* route_signal_waypoints what it returned, and response how it ended.

\* The names and places of the signals a table is made of: A, B, C as in
\* KNOWN_SIGNALS, and AB 50 m north of C.
SignalNames == {"A", "AB", "B", "C"}

SignalPlace ==
    [name \in SignalNames |->
        CASE name = "A" -> <<0, 0>>
          [] name = "AB" -> <<150, 0>>
          [] name = "B" -> <<50, 0>>
          [] name = "C" -> <<100, 0>>]

\* The tables KNOWN_SIGNALS can be: some of the signals, in any insertion
\* order.
SignalTables ==
    {[i \in 1..Len(names) |-> <<names[i], SignalPlace[names[i]]>>] :
        names \in {q \in SeqsUpTo(SignalNames, MaxSignals) \ {<<>>} :
                      \A i \in 1..Len(q), j \in 1..Len(q) : q[i] = q[j] => i = j}}

\* The paths: up to MaxPath road points, or none.
SequencerPaths == SeqsUpTo({<<lat, 0>> : lat \in RoadLats}, MaxPath)

\* The module before setup_signal_data has run.
InitSequencer ==
    /\ server \in {"CP", "VSC", "SIM"}
    /\ workers = 1
    /\ SIGNALS = <<>>
    /\ SIGNAL_ID_TO_NAME = <<>>
    /\ SIGNAL_NAME_TO_ID = setup_SIGNAL_NAME_TO_ID(<<>>)
    /\ PRECALCULATED_ROUTES = <<>>
    /\ route_points = <<>>
    /\ route_signal_waypoints = <<>>
    /\ current_point_index = 0
    /\ previous_location = None
    /\ current_start_name = ""
    /\ current_destination_name = ""
    /\ signals_passed_on_current_route = <<>>
    /\ threads = [t \in Threads |-> IdleThread]
    /\ response = NoResponse
    /\ admitted = 0
    /\ ticks = 0
    /\ activated = <<"", "">>

\* setup_signal_data (load_signals_from_file in the Simulation Server):
\* SIGNALS = KNOWN_SIGNALS and the two id maps.
setup_signal_data(known) ==
    /\ SIGNALS = <<>>
    /\ SIGNALS' = known
    /\ SIGNAL_ID_TO_NAME' = setup_SIGNAL_ID_TO_NAME(known)
    /\ SIGNAL_NAME_TO_ID' = setup_SIGNAL_NAME_TO_ID(known)
    /\ UNCHANGED <<server, workers, PRECALCULATED_ROUTES, globals, threads, response,
                   admitted, ticks, activated>>

\* `start_lat, start_lon = SIGNALS[start_name]` raises KeyError for a name
\* that is not a key; it is the only subscript of SIGNALS by start_name or
\* end_name in find_signals_on_path.
find_signals_on_path_KeyError(start_name, end_name) ==
    ~list_contains(dict_keys(SIGNALS), start_name)

\* A call find_signals_on_path(points, start_name, end_name) of the server's
\* implementation.  The function reads SIGNALS and its arguments only and
\* writes nothing, so one call in a behaviour stands for every call.
find_signals_on_path(points, start_name, end_name) ==
    /\ SIGNALS # <<>>
    /\ response = NoResponse
    /\ route_points' = points
    /\ current_start_name' = start_name
    /\ current_destination_name' = end_name
    /\ IF find_signals_on_path_KeyError(start_name, end_name)
       THEN /\ route_signal_waypoints' = <<>>
            /\ response' = [NoResponse EXCEPT !.endpoint = "find_signals_on_path",
                                              !.error = "KeyError"]
       ELSE /\ route_signal_waypoints' =
                  CASE server = "CP" -> CP_find_signals_on_path(points, start_name, end_name)
                    [] server = "VSC" -> VSC_find_signals_on_path(points, start_name, end_name)
                    [] server = "SIM" -> SIM_find_signals_on_path(points, start_name, end_name)
            /\ response' = [NoResponse EXCEPT !.endpoint = "find_signals_on_path"]
    /\ UNCHANGED <<registry, current_point_index, previous_location,
                   signals_passed_on_current_route, threads, admitted, ticks, activated>>

NextSequencer ==
    \/ \E known \in SignalTables : setup_signal_data(known)
    \/ \E points \in SequencerPaths, start_name \in SignalNames, end_name \in SignalNames :
          find_signals_on_path(points, start_name, end_name)

SpecSequencer == InitSequencer /\ [][NextSequencer]_vars

\* ================================================================ claims
AllIdle == \A t \in Threads : threads[t].pc = "idle"

ManualServer == server \in {"CP", "VSC"}

\* C1: when the route provider fails during a manual activation whose start
\* and end ids are both valid, the whole simulation state (points, waypoints,
\* cursor, previous location, start and end names, passed list) is what it
\* was when the request was made.  The step that answers "Could not
\* calculate route" is the step from the provider call back to idle.
C1_ProviderFailureLeavesStateUntouched ==
    [][\A t \in Threads :
          (threads[t].pc = "osrm" /\ threads'[t].pc = "idle")
              => globals' = threads[t].entry_globals]_vars

\* C2: a manual activation whose start id or end id is not registered
\* mutates no simulation state: when the KeyError is answered the globals
\* are what they were when the request was made, whether the unknown id is
\* the start id (the request fails as it is taken) or the end id.
C2_UnknownIdMutatesNothing ==
    [][(response'.error = "KeyError")
          => /\ AllIdle => globals' = globals
             /\ \A t \in Threads :
                   threads[t].pc = "dest_name" => globals' = threads[t].entry_globals]_vars

\* The statements of a manual activation after which the new route's points
\* (and then waypoints) are installed while the cursor or the passed list are
\* still the previous route's.
Installing(t) == threads[t].pc \in {"set_waypoints", "reset_index", "reset_passed"}

\* The statements of a tick that read or write the points, the cursor or the
\* passed list.
Ticking(t) == threads[t].pc \in {"hold", "prev", "cur", "inc", "scan"}

\* C3: activation and ticking are mutually exclusive: no tick is at a
\* statement that reads the route state while a manual activation has
\* installed the new points but not yet reset the cursor and the passed list.
C3_ActivationExcludesTicking ==
    ManualServer =>
        \A t \in Threads, u \in Threads : ~(Installing(t) /\ Ticking(u))

\* A /location request has just been answered and no request is in flight.
TickDone == AllIdle /\ response.endpoint = "/location"

\* C4: after a successful manual activation of a route with N points, the
\* i-th tick (i = 0..N-1, the (i+1)-th answered since the activation) returns
\* current = points[i] and previous = points[i-1] (points[0] when i = 0), and
\* leaves the cursor at i + 1: the points in order, none skipped or repeated.
C4_TicksReturnPointsInOrder ==
    (ManualServer /\ TickDone /\ 1 <= ticks /\ ticks <= Len(route_points))
        => /\ response.status = 200
           /\ response.current_loc = route_points[ticks]
           /\ response.prev_loc = route_points[IF ticks > 1 THEN ticks - 1 ELSE 1]
           /\ current_point_index = ticks

C4_Witness ==
    /\ ManualServer /\ TickDone /\ response.status = 200
    /\ ticks = MaxPoints /\ Len(route_points) = MaxPoints
    /\ response.current_loc = route_points[MaxPoints]
    /\ response.prev_loc = route_points[MaxPoints - 1]

\* C5: in manual mode (Control Panel and VSC) every tick after the cursor
\* has reached len(points) returns the held final point (current =
\* points[-1], previous = points[-2], or points[-1] for a one-point route),
\* not an error, and leaves the cursor at len(points).
C5_ManualTickHoldsFinalPoint ==
    (ManualServer /\ TickDone /\ route_points # <<>> /\ ticks > Len(route_points))
        => LET n == Len(route_points)
           IN  /\ response.status = 200
               /\ response.current_loc = route_points[n]
               /\ response.prev_loc = route_points[IF n > 1 THEN n - 1 ELSE n]
               /\ current_point_index = n

\* C6: in pool mode with a non-empty pool a tick never answers Empty, and a
\* tick that finds no route or an exhausted one first installs a route of
\* the pool, with cursor 0 and an empty passed list, and only then reads
\* the position: it returns (points[0], points[0]) of the installed route
\* and leaves the cursor at 1.
C6_PoolTickInstallsRoute ==
    server = "SIM" =>
        /\ response.endpoint = "/location" => response.status = 200
        /\ \A t \in Threads :
              LET drawn == threads[t].selected_route
              IN  /\ threads[t].pc = "select" => route_exhausted
                  /\ (threads[t].pc = "prev" /\ drawn = 0) => ~route_exhausted
                  /\ (threads[t].pc = "prev" /\ drawn # 0)
                        => /\ route_points = PRECALCULATED_ROUTES[drawn].points
                           /\ route_signal_waypoints = PRECALCULATED_ROUTES[drawn].waypoints
                           /\ current_point_index = 0
                           /\ signals_passed_on_current_route = <<>>
                  /\ (threads[t].pc \in {"scan", "payload"} /\ drawn # 0)
                        => /\ threads[t].current_loc = route_points[1]
                           /\ threads[t].prev_loc = route_points[1]
                           /\ current_point_index = 1
        /\ (TickDone /\ ticks = 1)
              => /\ response.current_loc = route_points[1]
                 /\ response.prev_loc = route_points[1]
                 /\ current_point_index = 1

\* A tick has drawn the three-point route from C to A and answered with
\* its first point twice.
C6_Witness ==
    /\ server = "SIM" /\ TickDone /\ ticks = 1
    /\ response.status = 200
    /\ response.current_loc = route_points[1]
    /\ response.prev_loc = route_points[1]
    /\ current_point_index = 1
    /\ Len(route_points) > 1
    /\ activated = <<"C", "A">>

\* The state right after an activation has succeeded: the manual handlers
\* are about to publish and answer, select_new_route has returned True.
JustActivated(t) ==
    \/ threads[t].pc = "publish"
    \/ threads[t].pc = "prev" /\ threads[t].selected_route # 0

\* C7: immediately after every successful activation (Control Panel, VSC,
\* Simulation Server) the cursor is 0, the previous point is None and the
\* passed list is empty, whatever the previous route left behind.
C7_ActivationResetsState ==
    \A t \in Threads :
        JustActivated(t)
            => /\ current_point_index = 0
               /\ previous_location = None
               /\ signals_passed_on_current_route = <<>>

\* s is a prefix of r
IsPrefix(s, r) == Len(s) <= Len(r) /\ SubSeq(r, 1, Len(s)) = s

\* C8: within one active route the passed list only grows (what it held
\* stays, in the same order); it is emptied only by the statement of an
\* activation that resets it.
C8_PassedOnlyGrows ==
    [][\/ IsPrefix(signals_passed_on_current_route, signals_passed_on_current_route')
       \/ /\ signals_passed_on_current_route' = <<>>
          /\ \E t \in Threads : threads[t].pc \in {"reset_passed", "select_passed"}]_vars

\* An activation is about to empty a passed list that grew to two signals.
C8_Witness ==
    /\ Len(signals_passed_on_current_route) >= 2
    /\ \E t \in Threads : threads[t].pc \in {"reset_passed", "select_passed"}

\* Every waypoint of the installed route was in the passed list when thread
\* t called find_next_signal_on_route.
AllPassedAtCall(t) ==
    /\ route_signal_waypoints # <<>>
    /\ \A i \in 1..Len(route_signal_waypoints) :
          list_contains(threads[t].entry_passed, route_signal_waypoints[i])

\* C9: once every waypoint of the active route is passed, a next-waypoint
\* call returns the end signal of that route and leaves the passed list
\* unchanged.
C9_AllPassedReturnsEndSignal ==
    \A t \in Threads :
        (threads[t].pc = "payload" /\ AllPassedAtCall(t))
            => /\ threads[t].next_signal_name = activated[2]
               /\ signals_passed_on_current_route = threads[t].entry_passed

\* The waypoints not passed when thread t called find_next_signal_on_route,
\* in route order, each once.
UnpassedAtCall(t) ==
    dict_fromkeys(SelectSeq(route_signal_waypoints,
                            LAMBDA s : ~list_contains(threads[t].entry_passed, s)))

\* Signal s is strictly within the arrival radius of the point loc.
WithinRadius(loc, s) ==
    LET at == dict_get(SIGNALS, s)
    IN  (loc[1] - at[1]) < ARRIVAL_RADIUS_KM /\ (at[1] - loc[1]) < ARRIVAL_RADIUS_KM

\* How many leading waypoints of `unpassed` are all within the radius of loc.
ReachedPrefix(loc, unpassed) ==
    Cardinality({i \in 1..Len(unpassed) :
                    \A j \in 1..i : WithinRadius(loc, unpassed[j])})

\* C10: one next-waypoint call marks every consecutive unpassed waypoint, in
\* route order, strictly within the arrival radius of the current point,
\* stops at the first unpassed waypoint that is not, and returns it; later
\* waypoints are not marked even if within the radius.
C10_MarksConsecutiveReached ==
    \A t \in Threads :
        threads[t].pc = "payload"
            => LET unpassed == UnpassedAtCall(t)
                   k == ReachedPrefix(threads[t].current_loc, unpassed)
               IN  /\ signals_passed_on_current_route =
                          threads[t].entry_passed \o SubSeq(unpassed, 1, k)
                   /\ k < Len(unpassed) => threads[t].next_signal_name = unpassed[k + 1]

\* A call has marked a waypoint and returned the next one, which is out of
\* the radius, while a later unpassed waypoint is within it.
C10_Witness ==
    \E t \in Threads :
        /\ threads[t].pc = "payload"
        /\ LET unpassed == UnpassedAtCall(t)
               k == ReachedPrefix(threads[t].current_loc, unpassed)
           IN  /\ k >= 1
               /\ k + 1 < Len(unpassed)
               /\ threads[t].next_signal_name = unpassed[k + 1]
               /\ \E j \in (k + 2)..Len(unpassed) :
                     WithinRadius(threads[t].current_loc, unpassed[j])

\* The first waypoint of the installed route that is not in the passed list
\* ("" when there is none).
FirstUnpassed ==
    LET left == {i \in 1..Len(route_signal_waypoints) :
                    ~list_contains(signals_passed_on_current_route,
                                   route_signal_waypoints[i])}
    IN  IF left = {} THEN ""
        ELSE route_signal_waypoints[CHOOSE i \in left : \A j \in left : i <= j]

\* C11: arrival is proximity-triggered.  A next-waypoint call made at a
\* position that is not within the arrival radius of the first unpassed
\* waypoint w leaves the passed list as it is (w and every waypoint after it
\* stay unpassed) and returns w; and the passed list changes in no other way
\* than by such a call marking the first unpassed waypoint while within its
\* radius, or by the reset of an activation.
C11_OvershotWaypointNeverPassed ==
    [][/\ \A t \in Threads :
             (/\ threads[t].pc = "scan"
              /\ FirstUnpassed # ""
              /\ ~WithinRadius(threads[t].current_loc, FirstUnpassed))
                 => /\ signals_passed_on_current_route' = signals_passed_on_current_route
                    /\ threads'[t].pc = "payload"
                    /\ threads'[t].next_signal_name = FirstUnpassed
       /\ signals_passed_on_current_route' # signals_passed_on_current_route
             => \/ /\ signals_passed_on_current_route' = <<>>
                   /\ \E t \in Threads : threads[t].pc \in {"reset_passed", "select_passed"}
                \/ \E t \in Threads :
                      /\ threads[t].pc = "scan"
                      /\ FirstUnpassed # ""
                      /\ WithinRadius(threads[t].current_loc, FirstUnpassed)
                      /\ signals_passed_on_current_route' =
                            Append(signals_passed_on_current_route, FirstUnpassed)]_vars

\* The second tick in a row has reported the first waypoint, which the
\* vehicle never came within the radius of, while it stands within the
\* radius of the last waypoint, which is not passed.
C11_Witness ==
    /\ TickDone /\ response.status = 200 /\ ticks >= 2
    /\ Len(route_signal_waypoints) = 3
    /\ signals_passed_on_current_route = <<>>
    /\ response.next_signal_name = route_signal_waypoints[1]
    /\ ~WithinRadius(response.current_loc, route_signal_waypoints[1])
    /\ WithinRadius(response.current_loc, route_signal_waypoints[3])

\* find_signals_on_path has been called and has returned a sequence.
Returned == response.endpoint = "find_signals_on_path" /\ response.error = ""

\* name is a key of SIGNALS
Registered(name) == \E i \in 1..Len(SIGNALS) : SIGNALS[i][1] = name

\* The proximity threshold of the server's find_signals_on_path.
ProximityKm ==
    IF server = "SIM" THEN SIM_WAYPOINT_PROXIMITY_KM ELSE WAYPOINT_PROXIMITY_KM

\* Some point of the path of the call lies within the proximity threshold of
\* the registered signal name.
NearPath(name) ==
    \E i \in 1..Len(SIGNALS), k \in 1..Len(route_points) :
        /\ SIGNALS[i][1] = name
        /\ route_points[k][1] - SIGNALS[i][2][1] < ProximityKm
        /\ SIGNALS[i][2][1] - route_points[k][1] < ProximityKm

\* C12: for every path and every registered start and end with start # end,
\* the sequence find_signals_on_path returns has start first and end last.
C12_StartFirstEndLast ==
    (/\ Returned
     /\ Registered(current_start_name) /\ Registered(current_destination_name)
     /\ current_start_name # current_destination_name)
        => /\ route_signal_waypoints # <<>>
           /\ route_signal_waypoints[1] = current_start_name
           /\ route_signal_waypoints[Len(route_signal_waypoints)] = current_destination_name

\* A call whose path comes near neither start nor end, and near a signal
\* between them, has returned start first and end last.
C12_Witness ==
    /\ Returned
    /\ Registered(current_start_name) /\ Registered(current_destination_name)
    /\ current_start_name # current_destination_name
    /\ ~NearPath(current_start_name) /\ ~NearPath(current_destination_name)
    /\ Len(route_signal_waypoints) = 3
    /\ route_signal_waypoints[1] = current_start_name
    /\ route_signal_waypoints[3] = current_destination_name

\* No name occurs twice in list.
NoDuplicates(list) ==
    \A i \in 1..Len(list), j \in 1..Len(list) : list[i] = list[j] => i = j

\* C13: the waypoint sequence of every route installed by an activation
\* (Control Panel, VSC, Simulation Server) contains no signal name twice,
\* start == end included.
C13_WaypointsHaveNoDuplicates ==
    NoDuplicates(route_signal_waypoints)

\* The registered signals other than the start and the end of the call.
OtherSignals ==
    {SIGNALS[i][1] : i \in 1..Len(SIGNALS)}
        \ {current_start_name, current_destination_name}

\* C14: a registered signal other than start and end is in the result of
\* find_signals_on_path if and only if some path point lies within the
\* proximity threshold of it (distance < proximity); so with no such signal
\* and start # end the result is exactly [start, end].
C14_MiddleIffNearPath ==
    Returned =>
        /\ \A name \in OtherSignals :
              list_contains(route_signal_waypoints, name) <=> NearPath(name)
        /\ ((\A name \in OtherSignals : ~NearPath(name))
               /\ current_start_name # current_destination_name)
              => route_signal_waypoints = <<current_start_name, current_destination_name>>

\* A call has returned one signal that is near the path and left out one
\* that lies at the proximity threshold itself from a path point.
C14_Witness ==
    /\ Returned
    /\ \E name \in OtherSignals :
          NearPath(name) /\ list_contains(route_signal_waypoints, name)
    /\ \E name \in OtherSignals :
          /\ ~list_contains(route_signal_waypoints, name)
          /\ \E k \in 1..Len(route_points) :
                \/ route_points[k][1] - SignalPlace[name][1] = ProximityKm
                \/ SignalPlace[name][1] - route_points[k][1] = ProximityKm

\* A call with start # end and no other signal near the path has returned
\* exactly [start, end].
C14_WitnessNoneNear ==
    /\ Returned
    /\ OtherSignals # {}
    /\ route_points # <<>>
    /\ current_start_name # current_destination_name
    /\ route_signal_waypoints = <<current_start_name, current_destination_name>>

\* find_signals_on_path has been called (and has returned or raised).
Called == response.endpoint = "find_signals_on_path"

\* C15: find_signals_on_path fails with an unknown-signal error and returns
\* no sequence whenever start is not in the registry, and likewise whenever
\* end is not in the registry.
C15_UnknownSignalFails ==
    (Called /\ (~Registered(current_start_name) \/ ~Registered(current_destination_name)))
        => /\ response.error = "KeyError"
           /\ route_signal_waypoints = <<>>

\* The ascending lexicographic (ordinal) order of the names of the tables.
LexRank ==
    [name \in SignalNames |->
        CASE name = "A" -> 1 [] name = "AB" -> 2 [] name = "B" -> 3 [] name = "C" -> 4]

\* The keys of a signal table.
KeySet(table) == {table[i][1] : i \in 1..Len(table)}

\* C16: registry initialization assigns the ids 1..N to the N names in
\* ascending lexicographic order; the two maps are inverse bijections
\* between the names and 1..N; and every table with the same set of names,
\* whatever its insertion order, gets the same maps.
C16_IdsFollowSortedNames ==
    SIGNALS # <<>> =>
        LET N == Len(SIGNALS)
        IN  /\ DOMAIN SIGNAL_ID_TO_NAME = 1..N
            /\ DOMAIN SIGNAL_NAME_TO_ID = KeySet(SIGNALS)
            /\ \A i \in 1..N, j \in 1..N :
                  i < j => LexRank[SIGNAL_ID_TO_NAME[i]] < LexRank[SIGNAL_ID_TO_NAME[j]]
            /\ \A i \in 1..N :
                  /\ SIGNAL_ID_TO_NAME[i] \in KeySet(SIGNALS)
                  /\ SIGNAL_NAME_TO_ID[SIGNAL_ID_TO_NAME[i]] = i
            /\ \A name \in KeySet(SIGNALS) :
                  /\ SIGNAL_NAME_TO_ID[name] \in 1..N
                  /\ SIGNAL_ID_TO_NAME[SIGNAL_NAME_TO_ID[name]] = name
            /\ \A other \in SignalTables :
                  KeySet(other) = KeySet(SIGNALS)
                      => /\ setup_SIGNAL_ID_TO_NAME(other) = SIGNAL_ID_TO_NAME
                         /\ setup_SIGNAL_NAME_TO_ID(other) = SIGNAL_NAME_TO_ID

\* A table of four signals entered in descending order has been indexed.
C16_Witness ==
    /\ dict_keys(SIGNALS) = <<"C", "B", "AB", "A">>
    /\ SIGNAL_ID_TO_NAME = <<"A", "AB", "B", "C">>
    /\ SIGNAL_NAME_TO_ID["AB"] = 2

\* C17: with ticks running concurrently on the same active route each tick
\* consumes one new point: no index of the installed points is read as the
\* current location by two ticks in flight.
C17_ConcurrentTicksReadDistinctPoints ==
    \A t \in Threads, u \in Threads :
        (t # u /\ threads[t].read_index >= 0 /\ threads[u].read_index >= 0)
            => threads[t].read_index # threads[u].read_index

\* No route has ever been activated with success.
NeverActivated == activated = <<"", "">>

\* C18: in manual mode, while no route has ever been activated with success,
\* a tick returns Empty (the endpoint answers "error: no route selected")
\* without going on to read a position, and changes no simulation state.
C18_TickWithoutRouteIsEmpty ==
    [][(ManualServer /\ NeverActivated)
          => /\ \A t \in Threads :
                   threads'[t].pc \notin {"hold", "prev", "cur", "inc", "scan", "payload"}
             /\ response'.endpoint = "/location"
                   => /\ response'.status = 500
                      /\ response'.error = "no route selected"
                      /\ \A t \in Threads : threads'[t].pc = "idle"
                      /\ globals' = globals]_vars

\* A tick has answered Empty after an activation that failed (the names it
\* left behind are there), no route ever having been activated.
C18_Witness ==
    /\ ManualServer /\ NeverActivated
    /\ TickDone
    /\ response.status = 500 /\ response.error = "no route selected"
    /\ current_start_name # ""
    /\ route_points = <<>> /\ current_point_index = 0

\* C19: end-to-end scenario.  With the scenario's signals and four-point
\* path, start A and end C, the installed waypoint sequence is [A, B, C];
\* the first tick returns (points[0], points[0]); and the next-waypoint call
\* at that position marks A, and only A, and returns B.
C19_EndToEndScenario ==
    activated = <<"A", "C">> =>
        /\ route_signal_waypoints = <<"A", "B", "C">>
        /\ (TickDone /\ ticks = 1)
              => /\ response.status = 200
                 /\ response.current_loc = <<0, 0>>
                 /\ response.prev_loc = <<0, 0>>
                 /\ response.current_loc = route_points[1]
                 /\ signals_passed_on_current_route = <<"A">>
                 /\ response.next_signal_name = "B"
                 /\ response.next_signal_id = 2

\* The Control Panel has answered the first tick of the scenario's route.
C19_Witness ==
    /\ server = "CP"
    /\ activated = <<"A", "C">>
    /\ Len(route_points) = 4
    /\ TickDone /\ ticks = 1
    /\ response.current_loc = <<0, 0>> /\ response.prev_loc = <<0, 0>>
    /\ signals_passed_on_current_route = <<"A">>
    /\ response.next_signal_name = "B"

\* The signals of the result strictly between start and end.
Between ==
    SelectSeq(route_signal_waypoints,
              LAMBDA s : s \notin {current_start_name, current_destination_name})

\* The distance of the registered signal name from the start of the call.
FromStart(name) ==
    LET d == SignalPlace[name][1] - SignalPlace[current_start_name][1]
    IN  IF d < 0 THEN -d ELSE d

\* The place of the registered signal name in the iteration order of SIGNALS.
RegistryOrder(name) == CHOOSE i \in 1..Len(SIGNALS) : SIGNALS[i][1] = name

\* C20: in the result of find_signals_on_path the signals strictly between
\* start and end are in order of non-decreasing distance from the start
\* signal, and signals at equal distance keep their registry iteration
\* order.
C20_SortedByDistanceFromStart ==
    Returned =>
        \A i \in 1..Len(Between), j \in 1..Len(Between) :
            i < j => \/ FromStart(Between[i]) < FromStart(Between[j])
                     \/ /\ FromStart(Between[i]) = FromStart(Between[j])
                        /\ RegistryOrder(Between[i]) < RegistryOrder(Between[j])

\* A result with two signals at equal distance from start, in registry
\* order, followed by a farther signal that comes before both in the
\* registry; the path runs the other way, its first point at the second of
\* them and its second point nearer to the first.
C20_Witness ==
    /\ Returned
    /\ Len(Between) = 3
    /\ FromStart(Between[1]) = FromStart(Between[2])
    /\ FromStart(Between[2]) < FromStart(Between[3])
    /\ RegistryOrder(Between[3]) < RegistryOrder(Between[1])
    /\ Len(route_points) = 2
    /\ route_points[1] = SignalPlace[Between[2]]
    /\ route_points[2][1] - SignalPlace[Between[1]][1] < 50
    /\ SignalPlace[Between[1]][1] - route_points[2][1] < 50


\* A tick has been answered with the IndexError of a read of route_points
\* out of range.
TickIndexError ==
    response.endpoint = "/location" /\ response.error = "IndexError"

\* C21: in every state, the states in the middle of concurrently running
\* activation and tick requests included, 0 <= current_point_index <=
\* len(route_points), and no tick indexes route_points out of range.
C21_CursorInRange ==
    /\ 0 <= current_point_index
    /\ current_point_index <= Len(route_points)
    /\ ~TickIndexError


\* Thread t is inside an activation, manual or from the pool, that has
\* installed the points of the new route and has not yet reset the passed
\* list.
Activating(t) ==
    threads[t].pc \in {"set_waypoints", "reset_index", "reset_passed",
                       "select_names", "select_publish", "select_reset",
                       "select_passed"}

\* C22: with activations and ticks executed one at a time, outside an
\* activation the passed list is a duplicate-free prefix of the waypoints of
\* the active route, in the same order.
C22_PassedIsPrefixOfWaypoints ==
    (\A t \in Threads : ~Activating(t))
        => /\ NoDuplicates(signals_passed_on_current_route)
           /\ IsPrefix(signals_passed_on_current_route, route_signal_waypoints)

\* After a tick two waypoints are passed and a third one is not.
C22_Witness ==
    /\ TickDone
    /\ Len(signals_passed_on_current_route) = 2
    /\ Len(route_signal_waypoints) = 3


\* C23: the next signal reported by every successful tick is an element of
\* the waypoints of the active route, after any sequence of successful and
\* failed activation requests and ticks.
C23_NextSignalIsWaypoint ==
    (TickDone /\ response.status = 200)
        => list_contains(route_signal_waypoints, response.next_signal_name)


\* C24: every iteration of the loop of find_next_signal_on_route either
\* returns or appends a waypoint that was not in the passed list, and with
\* no other request changing the state a call makes at most
\* len(route_signal_waypoints) + 1 iterations.
C24_FindNextSignalTerminates ==
    [][\A t \in Threads :
          (threads[t].pc = "scan" /\ threads'[t] # threads[t])
             => /\ threads'[t].iterations <= Len(route_signal_waypoints) + 1
                /\ \/ /\ threads'[t].pc = "payload"
                      /\ signals_passed_on_current_route' = signals_passed_on_current_route
                   \/ /\ threads'[t].pc = "scan"
                      /\ \E i \in 1..Len(route_signal_waypoints) :
                            /\ ~list_contains(signals_passed_on_current_route,
                                              route_signal_waypoints[i])
                            /\ signals_passed_on_current_route' =
                                  Append(signals_passed_on_current_route,
                                         route_signal_waypoints[i])]_vars

\* A call has returned on its last possible iteration: it marked both
\* waypoints of the route and found none left.
C24_Witness ==
    \E t \in Threads :
        /\ threads[t].pc = "payload"
        /\ Len(route_signal_waypoints) = 2
        /\ threads[t].iterations = Len(route_signal_waypoints) + 1
        /\ threads[t].entry_passed = <<>>
        /\ Len(signals_passed_on_current_route) = 2


\* The Control Panel has just answered the tick on the last point of a
\* freshly activated route: as many ticks have been answered since the
\* activation as the route has points, and no activation request since has
\* touched the names of the route.
LastPointTicked ==
    /\ server = "CP"
    /\ TickDone /\ response.status = 200
    /\ ticks = Len(route_points)
    /\ <<current_start_name, current_destination_name>> = activated

\* Every waypoint is marked passed and the end signal is reported as next.
AllWaypointsPassed ==
    /\ \A i \in 1..Len(route_signal_waypoints) :
          list_contains(signals_passed_on_current_route, route_signal_waypoints[i])
    /\ response.next_signal_name = activated[2]

\* The waypoints come strictly within the arrival radius of points of the
\* route in waypoint order: waypoint i at a point that is not before the
\* point of waypoint i - 1.
WaypointsReachedInOrder ==
    \E at \in [1..Len(route_signal_waypoints) -> 1..Len(route_points)] :
        /\ \A i \in 1..Len(route_signal_waypoints) :
              WithinRadius(route_points[at[i]], route_signal_waypoints[i])
        /\ \A i \in 1..(Len(route_signal_waypoints) - 1) : at[i] <= at[i + 1]

\* C25, as claimed: in manual mode (Control Panel), by the tick on the last
\* point of a freshly activated route every waypoint has been marked passed
\* and the reported next signal is the end signal.
C25_FullTraversalPassesAll ==
    LastPointTicked => AllWaypointsPassed

\* C25, amended: by the tick on the last point every waypoint has been
\* marked passed and the end signal is reported exactly when the waypoints
\* come within the arrival radius of points of the route in waypoint order;
\* otherwise a waypoint of the route is reported that is not passed.
C25_FullTraversalPassesReached ==
    LastPointTicked =>
        /\ AllWaypointsPassed <=> WaypointsReachedInOrder
        /\ ~WaypointsReachedInOrder
              => /\ list_contains(route_signal_waypoints, response.next_signal_name)
                 /\ ~list_contains(signals_passed_on_current_route,
                                   response.next_signal_name)

\* The tick on the second and last point of a route has marked the third of
\* its three waypoints, the first two having been marked at the first point.
C25_Witness ==
    /\ LastPointTicked
    /\ Len(route_points) = 2
    /\ Len(route_signal_waypoints) = 3
    /\ WaypointsReachedInOrder
    /\ signals_passed_on_current_route = route_signal_waypoints
    /\ response.next_signal_name = current_destination_name

====
